---------------------------- MODULE Spec2Model ----------------------------
(***************************************************************************)
(* A model of tensorflow_transform/saved/saved_transform_io.py:            *)
(*   - the codec _decompose_sparse_tensors / _recompose_sparse_tensors,    *)
(*   - _predict_signature_def and write_saved_transform_from_session,      *)
(*   - _load_transform_saved_model, partially_apply_saved_transform and    *)
(*     apply_saved_transform against one default graph.                    *)
(*                                                                         *)
(* Column names (logical names, flat keys) are sequences of one-character  *)
(* strings, so that the two regular expressions are matched character by   *)
(* character.                                                              *)
(***************************************************************************)
EXTENDS Integers, Sequences, FiniteSets, TLC

VARIABLES
    graph,      \* the default graph: names_in_use, ops, asset collection
    store,      \* the export directory: "absent" or the SavedModel written
    last,       \* the last public call: its arguments and its outcome
    imports,    \* history: one record per import_meta_graph call
    userOps,    \* the names the caller asked for when creating ops itself
    codec,      \* codec runs: the map given and the recomposed result
    pc,         \* two-thread runs: each thread's position
    tcall       \* two-thread runs: each thread's locals

vars == <<graph, store, last, imports, userOps, codec, pc, tcall>>

(***************************************************************************)
(* Strings as character sequences                                          *)
(***************************************************************************)
NL == "\n"

IndicesSuffix == <<"$", "i", "n", "d", "i", "c", "e", "s">>
ValuesSuffix == <<"$", "v", "a", "l", "u", "e", "s">>
DenseShapeSuffix == <<"$", "d", "e", "n", "s", "e", "_", "s", "h", "a", "p", "e">>
DenseTensorSuffix == <<"$", "d", "e", "n", "s", "e", "_", "t", "e", "n", "s", "o", "r">>

Max(S) == CHOOSE m \in S : \A n \in S : n <= m

NoMatch == [matched |-> FALSE, group |-> <<>>]

\* '.' matches any character but a newline.
DotStar(s) == \A i \in 1..Len(s) : s[i] # NL

\* '$' of a pattern: the end of the string, or just before a newline that
\* ends the string.  pos is the index of the next character to read.
AtEnd(s, pos) == pos = Len(s) + 1 \/ (pos = Len(s) /\ s[pos] = NL)

\* re.match of (.*)<one of sufs>$ on s: group 1 of the greedy match.  The
\* group can end only where a suffix ends the string, or ends just before
\* its last character.
MatchRE(s, sufs) ==
    LET ends == UNION {{Len(s) - Len(suf), Len(s) - Len(suf) - 1} : suf \in sufs}
        K == {k \in ends \cap (0..Len(s)) :
                /\ DotStar(SubSeq(s, 1, k))
                /\ \E suf \in sufs :
                     /\ k + Len(suf) <= Len(s)
                     /\ SubSeq(s, k + 1, k + Len(suf)) = suf
                     /\ AtEnd(s, k + Len(suf) + 1)}
    IN  IF K = {} THEN NoMatch
        ELSE [matched |-> TRUE, group |-> SubSeq(s, 1, Max(K))]

SPARSE_TENSOR_NAME_RE(s) ==
    MatchRE(s, {IndicesSuffix, ValuesSuffix, DenseShapeSuffix})

DENSE_TENSOR_NAME_RE(s) == MatchRE(s, {DenseTensorSuffix})

(***************************************************************************)
(* Values: a Tensor or a SparseTensor of three Tensors                     *)
(***************************************************************************)
Dense(t) == [kind |-> "dense", parts |-> <<t>>]
SparseTensor(i, v, s) == [kind |-> "sparse", parts |-> <<i, v, s>>]
IsSparse(x) == x.kind = "sparse"

EmptyMap == <<>>

(***************************************************************************)
(* _decompose_sparse_tensors                                               *)
(***************************************************************************)
DecomposedEntries(tensor_map) ==
    UNION {IF IsSparse(tensor_map[key])
           THEN {<<key \o IndicesSuffix, tensor_map[key].parts[1]>>,
                 <<key \o ValuesSuffix, tensor_map[key].parts[2]>>,
                 <<key \o DenseShapeSuffix, tensor_map[key].parts[3]>>}
           ELSE {<<key \o DenseTensorSuffix, tensor_map[key].parts[1]>>}
           : key \in DOMAIN tensor_map}

decompose_sparse_tensors(tensor_map) ==
    LET entries == DecomposedEntries(tensor_map)
    IN  [k \in {e[1] : e \in entries} |->
            (CHOOSE e \in entries : e[1] = k)[2]]

(***************************************************************************)
(* _recompose_sparse_tensors                                               *)
(***************************************************************************)
\* Lines 262-273: the keys sorted by the pattern they match.
KeyClasses(tensor_map) ==
    LET sm == [k \in DOMAIN tensor_map |-> SPARSE_TENSOR_NAME_RE(k)]
        dm == [k \in DOMAIN tensor_map |-> DENSE_TENSOR_NAME_RE(k)]
    IN  [sparse_keys |-> {sm[k].group : k \in {x \in DOMAIN tensor_map : sm[x].matched}},
         dense_keys |-> {dm[k].group : k \in {x \in DOMAIN tensor_map :
                                            ~sm[x].matched /\ dm[x].matched}},
         unexpected |-> {k \in DOMAIN tensor_map :
                            ~sm[k].matched /\ ~dm[k].matched}]

\* The lookups tensor_map[key + suffix] of the two result loops.
RecomposeLookups(sparse_keys, dense_keys) ==
    UNION {{key \o IndicesSuffix, key \o ValuesSuffix, key \o DenseShapeSuffix}
            : key \in sparse_keys}
    \cup {key \o DenseTensorSuffix : key \in dense_keys}

recompose_sparse_tensors(tensor_map) ==
    LET c == KeyClasses(tensor_map)
    IN  IF c.unexpected # {}
        THEN [err |-> "ValueError: Unexpected key", val |-> EmptyMap]
        ELSE IF ~(RecomposeLookups(c.sparse_keys, c.dense_keys)
                    \subseteq DOMAIN tensor_map)
        THEN [err |-> "KeyError", val |-> EmptyMap]
        ELSE [err |-> "ok",
              val |-> [key \in c.sparse_keys \cup c.dense_keys |->
                         \* the dense loop runs second and overwrites
                         IF key \in c.dense_keys
                         THEN Dense(tensor_map[key \o DenseTensorSuffix])
                         ELSE SparseTensor(tensor_map[key \o IndicesSuffix],
                                           tensor_map[key \o ValuesSuffix],
                                           tensor_map[key \o DenseShapeSuffix])]]

(***************************************************************************)
(* The default graph.  An op name is the sequence of its scope components  *)
(* ("transform_1/p" is <<"transform_1", "p">>); a Tensor is the first      *)
(* output of an op and is known by that op's name.  The caller works at    *)
(* the root name scope and creates its own ops under plain names.          *)
(***************************************************************************)
Tensor(op) == [name |-> op]

WithName(in_use, name, n) ==
    [x \in DOMAIN in_use \cup {name} |-> IF x = name THEN n ELSE in_use[x]]

Renamed(base, i) ==
    SubSeq(base, 1, Len(base) - 1) \o <<base[Len(base)] \o "_" \o ToString(i)>>

\* while name in names_in_use: name = "%s_%d" % (base_name, i); i += 1
RECURSIVE FirstFree(_, _, _)
FirstFree(in_use, base, i) ==
    IF Renamed(base, i) \in DOMAIN in_use
    THEN FirstFree(in_use, base, i + 1)
    ELSE Renamed(base, i)

\* unique_name without the while loop: "%s_%d" % (name, i) is taken as is.
unique_name_unchecked(g, name, mark_as_used) ==
    LET i == IF name \in DOMAIN g.names_in_use THEN g.names_in_use[name] ELSE 0
        used1 == IF mark_as_used THEN WithName(g.names_in_use, name, i + 1)
                 ELSE g.names_in_use
        fresh == IF i > 0 THEN Renamed(name, i) ELSE name
        used2 == IF i > 0 /\ mark_as_used THEN WithName(used1, fresh, 1) ELSE used1
    IN  [name |-> fresh, graph |-> [g EXCEPT !.names_in_use = used2]]

\* Graph.unique_name(name, mark_as_used)
unique_name(g, name, mark_as_used) ==
    LET i == IF name \in DOMAIN g.names_in_use THEN g.names_in_use[name] ELSE 0
        used1 == IF mark_as_used THEN WithName(g.names_in_use, name, i + 1)
                 ELSE g.names_in_use
        fresh == IF i > 0 THEN FirstFree(used1, name, i) ELSE name
        used2 == IF i > 0 /\ mark_as_used THEN WithName(used1, fresh, 1) ELSE used1
    IN  [name |-> fresh, graph |-> [g EXCEPT !.names_in_use = used2]]

\* Graph.create_op under the current name scope.
create_op(g, name) ==
    LET u == unique_name(g, name, TRUE)
    IN  [name |-> u.name, graph |-> [u.graph EXCEPT !.ops = @ \cup {u.name}]]

\* ops.prepend_name_scope(name, import_scope)
prepend_name_scope(name, scope) == scope \o name

\* Graph.get_tensor_by_name: KeyError when the graph holds no such tensor.
HasTensor(g, name) == name \in g.ops

RECURSIVE ImportNodes(_, _, _)
ImportNodes(g, scope, nodes) ==
    IF nodes = {} THEN [graph |-> g, created |-> {}]
    ELSE LET node == CHOOSE n \in nodes : TRUE
             op == create_op(g, prepend_name_scope(node, scope))
             rest == ImportNodes(op.graph, scope, nodes \ {node})
         IN  [graph |-> rest.graph, created |-> {op.name} \cup rest.created]

\* tf_saver.import_meta_graph(meta_graph_def, import_scope, input_map):
\* import_graph_def opens name_scope(import_scope), which takes
\* unique_name(import_scope) and marks it used, then creates every node of
\* the graph_def under that scope.
import_meta_graph(g, meta_graph_def, import_scope) ==
    LET opened == unique_name(g, import_scope, TRUE)
        done == ImportNodes(opened.graph, opened.name, meta_graph_def.graph_def)
    IN  [graph |-> done.graph, actual |-> opened.name, created |-> done.created]

(***************************************************************************)
(* _predict_signature_def and write_saved_transform_from_session           *)
(***************************************************************************)
None == [none |-> TRUE]

\* saved_model_utils.build_tensor_info(tensor).name
build_tensor_info(tensor) == tensor.name

predict_signature_def(inputs, outputs) ==
    IF inputs = None \/ inputs = EmptyMap
    THEN [err |-> "ValueError: inputs cannot be None or empty",
          inputs |-> EmptyMap, outputs |-> EmptyMap]
    ELSE IF outputs = None
    THEN [err |-> "ValueError: outputs cannot be None or empty",
          inputs |-> EmptyMap, outputs |-> EmptyMap]
    ELSE [err |-> "ok",
          inputs |-> [key \in DOMAIN inputs |-> build_tensor_info(inputs[key])],
          outputs |-> [key \in DOMAIN outputs |-> build_tensor_info(outputs[key])]]

Absent == [exists |-> FALSE]

\* The SavedModel that the builder writes: the graph, the one signature
\* under 'transform_signature', and the ASSET_FILEPATHS collection.
write_saved_transform_from_session(g, dir, inputs, outputs) ==
    LET sig == predict_signature_def(decompose_sparse_tensors(inputs),
                                     decompose_sparse_tensors(outputs))
    IN  IF sig.err # "ok" THEN [err |-> sig.err, store |-> dir]
        ELSE IF dir # Absent
        THEN [err |-> "AssertionError: export directory exists", store |-> dir]
        ELSE [err |-> "ok",
              store |-> [exists |-> TRUE,
                         graph_def |-> g.ops,
                         inputs |-> sig.inputs,
                         outputs |-> sig.outputs,
                         assets |-> g.assets]]

(***************************************************************************)
(* _load_transform_saved_model                                             *)
(***************************************************************************)
\* saved_model_loader.get_asset_tensors: one feed per asset file that the
\* meta graph declares.
get_asset_tensors(meta_graph_def) == meta_graph_def.assets

\* A loader that, like tf.saved_model.loader.load, imports the meta graph
\* into the default graph as it reads it.
load_transform_saved_model_importing(g, saved_model) ==
    LET init_feed_dict == get_asset_tensors(saved_model)
        g2 == import_meta_graph(g, saved_model, <<"transform">>).graph
    IN  IF init_feed_dict # {}
        THEN [err |-> "NotImplementedError: assets", graph |-> g2,
              meta_graph_def |-> saved_model,
              input_signature |-> EmptyMap, output_signature |-> EmptyMap]
        ELSE [err |-> "ok", graph |-> g2,
              meta_graph_def |-> saved_model,
              input_signature |-> saved_model.inputs,
              output_signature |-> saved_model.outputs]

\* The default graph is ambient state: every step takes it and hands it on.
load_transform_saved_model(g, saved_model) ==
    LET init_feed_dict == get_asset_tensors(saved_model)
    IN  IF init_feed_dict # {}
        THEN [err |-> "NotImplementedError: assets", graph |-> g,
              meta_graph_def |-> saved_model,
              input_signature |-> EmptyMap, output_signature |-> EmptyMap]
        ELSE [err |-> "ok", graph |-> g,
              meta_graph_def |-> saved_model,
              input_signature |-> saved_model.inputs,
              output_signature |-> saved_model.outputs]

(***************************************************************************)
(* partially_apply_saved_transform                                         *)
(***************************************************************************)
\* The symmetric difference in place of the difference.
UnexpectedInputs_symmetric(decomposed_input_tensors, input_signature) ==
    (DOMAIN decomposed_input_tensors \ DOMAIN input_signature)
    \cup (DOMAIN input_signature \ DOMAIN decomposed_input_tensors)

\* set(decomposed_input_tensors.keys()) - set(input_signature.keys())
UnexpectedInputs(decomposed_input_tensors, input_signature) ==
    DOMAIN decomposed_input_tensors \ DOMAIN input_signature

\* The dict comprehension of input_map: when two bound keys name the same
\* tensor of the transform graph the entry written last stays, and the
\* order is the dict's.  These are the maps it can build.
InputMaps(input_signature, decomposed_input_tensors) ==
    LET bound == DOMAIN decomposed_input_tensors
        names == {input_signature[k] : k \in bound}
    IN  {im \in [names -> {decomposed_input_tensors[k] : k \in bound}] :
            \A n \in names : \E k \in bound :
                input_signature[k] = n /\ im[n] = decomposed_input_tensors[k]}

\* The lookup without the input_map case.
lookup_remapped_tensor_scoped(g, input_map, scope, tensor_name) ==
    [found |-> HasTensor(g, prepend_name_scope(tensor_name, scope)),
     tensor |-> Tensor(prepend_name_scope(tensor_name, scope))]

lookup_remapped_tensor(g, input_map, scope, tensor_name) ==
    IF tensor_name \in DOMAIN input_map
    THEN [found |-> TRUE, tensor |-> input_map[tensor_name]]
    ELSE [found |-> HasTensor(g, prepend_name_scope(tensor_name, scope)),
          tensor |-> Tensor(prepend_name_scope(tensor_name, scope))]

\* The comprehension of lines 156-161 without its filter.
UnboundKeys_unfiltered(input_signature, decomposed_input_tensors) ==
    DOMAIN input_signature

\* The keys of decomposed_unbound_input_tensors.
UnboundKeys(input_signature, decomposed_input_tensors) ==
    {k \in DOMAIN input_signature : k \notin DOMAIN decomposed_input_tensors}

Failure(g, e, names) ==
    [err |-> e, names |-> names, graph |-> g, imported |-> FALSE,
     scope |-> <<>>, actual |-> <<>>, created |-> {},
     unbound |-> EmptyMap, outputs |-> EmptyMap]

\* Lines 150-153: decomposed_output_tensors, each with whether the lookup
\* found a tensor.
ResolveOutputs(g, input_map, scope, output_signature) ==
    [k \in DOMAIN output_signature |->
        lookup_remapped_tensor(g, input_map, scope, output_signature[k])]

\* Lines 156-161: decomposed_unbound_input_tensors, likewise.
ResolveUnbound(g, scope, input_signature, decomposed_input_tensors) ==
    [k \in UnboundKeys(input_signature, decomposed_input_tensors) |->
        [found |-> HasTensor(g, prepend_name_scope(input_signature[k], scope)),
         tensor |-> Tensor(prepend_name_scope(input_signature[k], scope))]]

AllFound(m) == \A k \in DOMAIN m : m[k].found
TensorsOf(m) == [k \in DOMAIN m |-> m[k].tensor]

\* Lines 163-165, and the first failure of lines 150-164 if there is one.
Returned(imp, scope, found, outputs, unbound) ==
    LET e == IF ~found THEN "KeyError: no such tensor"
             ELSE IF outputs.err # "ok" THEN outputs.err
             ELSE unbound.err
    IN  [err |-> e, names |-> {}, graph |-> imp.graph, imported |-> TRUE,
         scope |-> scope, actual |-> imp.actual, created |-> imp.created,
         unbound |-> IF e = "ok" THEN unbound.val ELSE EmptyMap,
         outputs |-> IF e = "ok" THEN outputs.val ELSE EmptyMap]

Recomposed(imp, scope, out, unb) ==
    Returned(imp, scope, AllFound(out) /\ AllFound(unb),
             recompose_sparse_tensors(TensorsOf(out)),
             recompose_sparse_tensors(TensorsOf(unb)))

Resolved(imp, loaded, decomposed_input_tensors, input_map, scope) ==
    Recomposed(imp, scope,
               ResolveOutputs(imp.graph, input_map, scope, loaded.output_signature),
               ResolveUnbound(imp.graph, scope, loaded.input_signature,
                              decomposed_input_tensors))

\* Lines 129-165: the import under `scope`, the lookups, the recomposition.
ImportAndResolve(g, loaded, decomposed_input_tensors, input_map, scope) ==
    Resolved(import_meta_graph(g, loaded.meta_graph_def, scope),
             loaded, decomposed_input_tensors, input_map, scope)

\* graph.unique_name('transform', mark_as_used=False)
ScopeQuery(g) == unique_name(g, <<"transform">>, FALSE).name

\* The check for unexpected inputs made on the signature before the assets
\* check.
Validate_inputs_first(g, saved_model, input_tensors) ==
    LET decomposed_input_tensors == decompose_sparse_tensors(input_tensors)
        loaded == load_transform_saved_model(g, saved_model)
        unexpected_inputs == UnexpectedInputs(decomposed_input_tensors,
                                              saved_model.inputs)
    IN  IF unexpected_inputs # {}
        THEN Failure(loaded.graph, "ValueError: Unexpected inputs", unexpected_inputs)
        ELSE IF loaded.err # "ok" THEN Failure(loaded.graph, loaded.err, {})
        ELSE Failure(loaded.graph, "ok", {})

\* Lines 101-111: decompose, load, check for unexpected inputs.
Validate(g, saved_model, input_tensors) ==
    LET decomposed_input_tensors == decompose_sparse_tensors(input_tensors)
        loaded == load_transform_saved_model(g, saved_model)
        unexpected_inputs == UnexpectedInputs(decomposed_input_tensors,
                                              loaded.input_signature)
    IN  IF loaded.err # "ok" THEN Failure(loaded.graph, loaded.err, {})
        ELSE IF unexpected_inputs # {}
        THEN Failure(loaded.graph, "ValueError: Unexpected inputs", unexpected_inputs)
        ELSE Failure(loaded.graph, "ok", {})

\* input_map is the map the dict comprehension built, one of InputMaps.
partially_apply_saved_transform(g, saved_model, input_tensors, input_map) ==
    LET checked == Validate(g, saved_model, input_tensors)
    IN  IF checked.err # "ok" THEN checked
        ELSE ImportAndResolve(checked.graph,
                              load_transform_saved_model(g, saved_model),
                              decompose_sparse_tensors(input_tensors),
                              input_map, ScopeQuery(checked.graph))

\* The input maps of a call; one empty map when the call fails before
\* line 115.
CallInputMaps(g, saved_model, input_tensors) ==
    IF Validate(g, saved_model, input_tensors).err # "ok" THEN {EmptyMap}
    ELSE InputMaps(saved_model.inputs, decompose_sparse_tensors(input_tensors))

(***************************************************************************)
(* apply_saved_transform                                                   *)
(***************************************************************************)
\* The wrapper testing the outputs instead of the unbound inputs.
apply_saved_transform_outputs(partial) ==
    IF partial.err # "ok" THEN [err |-> partial.err, names |-> partial.names,
                                 ret |-> EmptyMap]
    ELSE IF partial.outputs = EmptyMap
    THEN [err |-> "ValueError: Missing required inputs",
          names |-> DOMAIN partial.unbound, ret |-> EmptyMap]
    ELSE [err |-> "ok", names |-> {}, ret |-> partial.outputs]

apply_saved_transform(partial) ==
    IF partial.err # "ok" THEN [err |-> partial.err, names |-> partial.names,
                                 ret |-> EmptyMap]
    ELSE IF partial.unbound # EmptyMap
    THEN [err |-> "ValueError: Missing required inputs",
          names |-> DOMAIN partial.unbound, ret |-> EmptyMap]
    ELSE [err |-> "ok", names |-> {}, ret |-> partial.outputs]

(***************************************************************************)
(* Bounds and the inputs the callers draw from                             *)
(***************************************************************************)
MaxImports == 2     \* imports into the one default graph
MaxNameLen == 2     \* codec runs: length of a drawn column name
MaxEntries == 2     \* codec runs: entries of a drawn map

Threads == {1, 2}

\* Names the caller may give to an op of its own.
UserOpNames == {<<"transform_1">>}

\* Column names of the transforms.
ColA == <<"a">>
ColB == <<"b">>
ColC == <<"c">>
ColNL == <<"d", NL>>

\* The caller's own tensors: three placeholders.
P == Tensor(<<"p">>)
Q == Tensor(<<"q">>)
R == Tensor(<<"r">>)
\* What the caller freezes as inputs and as outputs, and what it binds.
FrozenInputs == {Dense(P), SparseTensor(P, Q, R)}
FrozenOutputs == {Dense(P), SparseTensor(Q, R, P)}
BaseValues == {Dense(Q), SparseTensor(P, Q, R)}

\* All maps from a subset of names to values.
Maps(names, values) == UNION {[d -> values] : d \in SUBSET names}

Graph0 ==
    [names_in_use |-> [n \in {<<"p">>, <<"q">>, <<"r">>} |-> 1],
     ops |-> {<<"p">>, <<"q">>, <<"r">>},
     assets |-> {}]

NoCall ==
    [op |-> "none", inputs |-> EmptyMap, outs |-> EmptyMap,
     input_map |-> EmptyMap, pre |-> Graph0, post |-> Graph0,
     err |-> "ok", names |-> {},
     unbound |-> EmptyMap, outputs |-> EmptyMap, perr |-> "ok",
     imported |-> FALSE, ret |-> EmptyMap]

NoCodec == [phase |-> "none", x |-> EmptyMap, flat |-> EmptyMap,
            err |-> "ok", back |-> EmptyMap]

NoTCall == [inputs |-> EmptyMap, input_map |-> EmptyMap, scope |-> <<>>,
            err |-> "ok", outputs |-> EmptyMap, unbound |-> EmptyMap,
            actual |-> <<>>]

ImportRecord(g, r) ==
    [scope |-> r.scope, actual |-> r.actual, created |-> r.created]

(***************************************************************************)
(* Sequential runs: every public call is one step                          *)
(***************************************************************************)
Init ==
    /\ graph = Graph0
    /\ store = Absent
    /\ last = NoCall
    /\ imports = <<>>
    /\ userOps = {}
    /\ codec = NoCodec
    /\ pc = [t \in Threads |-> "idle"]
    /\ tcall = [t \in Threads |-> NoTCall]

\* Composing into the graph, the caller also creates ops of its own under
\* names it chooses.
AddUserOp ==
    /\ store # Absent
    /\ \E name \in UserOpNames \ userOps :
        /\ graph' = create_op(graph, name).graph
        /\ userOps' = userOps \cup {name}
    /\ UNCHANGED <<store, last, imports, codec, pc, tcall>>

\* Before freezing, the caller registers an asset file:
\* tf.add_to_collection(ASSET_FILEPATHS, ...).
RegisterAsset ==
    /\ store = Absent
    /\ graph.assets = {}
    /\ graph' = [graph EXCEPT !.assets = {"vocab.txt"}]
    /\ UNCHANGED <<store, last, imports, userOps, codec, pc, tcall>>

\* The caller freezes into an export directory that does not exist yet.
Freeze ==
    /\ store = Absent
    /\ \E inputs \in Maps({ColA, ColB}, FrozenInputs),
       outputs \in Maps({ColC, ColNL}, FrozenOutputs) :
        LET w == write_saved_transform_from_session(graph, store, inputs, outputs)
        IN  /\ store' = w.store
            /\ last' = [NoCall EXCEPT !.op = "freeze", !.inputs = inputs,
                                      !.outs = outputs, !.pre = graph,
                                      !.post = graph, !.err = w.err]
    /\ UNCHANGED <<graph, imports, userOps, codec, pc, tcall>>

CallRecord(op, inputs, im, r, a) ==
    [op |-> op, inputs |-> inputs, outs |-> EmptyMap, input_map |-> im,
     pre |-> graph, post |-> r.graph, err |-> a.err, names |-> a.names,
     unbound |-> r.unbound,
     outputs |-> r.outputs, perr |-> r.err, imported |-> r.imported,
     ret |-> a.ret]

PartiallyApply ==
    /\ store # Absent
    /\ Len(imports) < MaxImports
    /\ \E inputs \in Maps({ColA, ColB}, BaseValues) :
       \E im \in CallInputMaps(graph, store, inputs) :
        LET r == partially_apply_saved_transform(graph, store, inputs, im)
        IN  /\ graph' = r.graph
            /\ last' = CallRecord("partially_apply", inputs, im, r,
                                  [err |-> r.err, names |-> r.names,
                                   ret |-> EmptyMap])
            /\ imports' = IF r.imported
                          THEN Append(imports, ImportRecord(graph, r))
                          ELSE imports
    /\ UNCHANGED <<store, userOps, codec, pc, tcall>>

Apply ==
    /\ store # Absent
    /\ Len(imports) < MaxImports
    /\ \E inputs \in Maps({ColA, ColB}, BaseValues) :
       \E im \in CallInputMaps(graph, store, inputs) :
        LET r == partially_apply_saved_transform(graph, store, inputs, im)
        IN  /\ graph' = r.graph
            /\ last' = CallRecord("apply", inputs, im, r,
                                  apply_saved_transform(r))
            /\ imports' = IF r.imported
                          THEN Append(imports, ImportRecord(graph, r))
                          ELSE imports
    /\ UNCHANGED <<store, userOps, codec, pc, tcall>>

Next == AddUserOp \/ RegisterAsset \/ Freeze \/ PartiallyApply \/ Apply

Spec == Init /\ [][Next]_vars

(***************************************************************************)
(* Codec runs: a drawn map is decomposed, then recomposed                  *)
(***************************************************************************)
CodecAlphabet == {"a", "$", NL}

\* Column names: every string up to MaxNameLen, and names that themselves
\* end in a suffix.
CodecNames ==
    UNION {[1..n -> CodecAlphabet] : n \in 0..MaxNameLen}
    \cup {<<"a">> \o IndicesSuffix, <<"a">> \o ValuesSuffix,
          DenseShapeSuffix, <<"a">> \o DenseTensorSuffix}

CodecValues ==
    {Dense("h1"), Dense("h2"),
     SparseTensor("h1", "h2", "h3"), SparseTensor("h2", "h2", "h1")}

Extend(m, n, v) == [x \in DOMAIN m \cup {n} |-> IF x = n THEN v ELSE m[x]]

RECURSIVE MapsUpTo(_, _, _)
MapsUpTo(names, values, k) ==
    IF k = 0 THEN {EmptyMap}
    ELSE LET smaller == MapsUpTo(names, values, k - 1)
         IN  smaller \cup
             UNION {{Extend(m, n, v) : n \in names \ DOMAIN m, v \in values}
                    : m \in smaller}

InitCodec ==
    /\ graph = Graph0
    /\ store = Absent
    /\ last = NoCall
    /\ imports = <<>>
    /\ userOps = {}
    /\ pc = [t \in Threads |-> "idle"]
    /\ tcall = [t \in Threads |-> NoTCall]
    /\ \E x \in MapsUpTo(CodecNames, CodecValues, MaxEntries) :
        codec = [NoCodec EXCEPT !.phase = "given", !.x = x]

Decompose ==
    /\ codec.phase = "given"
    /\ codec' = [codec EXCEPT !.phase = "flat",
                              !.flat = decompose_sparse_tensors(codec.x)]
    /\ UNCHANGED <<graph, store, last, imports, userOps, pc, tcall>>

Recompose ==
    /\ codec.phase = "flat"
    /\ LET r == recompose_sparse_tensors(codec.flat)
       IN  codec' = [codec EXCEPT !.phase = "done", !.err = r.err,
                                  !.back = r.val]
    /\ UNCHANGED <<graph, store, last, imports, userOps, pc, tcall>>

NextCodec == Decompose \/ Recompose

SpecCodec == InitCodec /\ [][NextCodec]_vars

(***************************************************************************)
(* Two-thread runs: two partially_apply_saved_transform calls on the one   *)
(* default graph.  A call reads the graph at line 125 (the unique_name     *)
(* query, which marks nothing) and writes it from line 129 on (the         *)
(* import); the other thread may run in between.                           *)
(***************************************************************************)
\* Lines 101-125 of thread t.
TAllocate(t) ==
    /\ pc[t] = "idle"
    /\ store # Absent
    /\ \E inputs \in Maps({ColA, ColB}, BaseValues) :
       \E im \in CallInputMaps(graph, store, inputs) :
        LET checked == Validate(graph, store, inputs)
        IN  /\ tcall' = [tcall EXCEPT ![t] =
                            [NoTCall EXCEPT !.inputs = inputs,
                                            !.input_map = im,
                                            !.err = checked.err,
                                            !.scope = IF checked.err = "ok"
                                                      THEN ScopeQuery(checked.graph)
                                                      ELSE <<>>]]
            /\ pc' = [pc EXCEPT ![t] = IF checked.err = "ok" THEN "allocated"
                                       ELSE "done"]
            /\ graph' = checked.graph
    /\ UNCHANGED <<store, last, imports, userOps, codec>>

\* Lines 129-165 of thread t.
TImport(t) ==
    /\ pc[t] = "allocated"
    /\ LET r == ImportAndResolve(graph, load_transform_saved_model(graph, store),
                                 decompose_sparse_tensors(tcall[t].inputs),
                                 tcall[t].input_map, tcall[t].scope)
       IN  /\ graph' = r.graph
           /\ tcall' = [tcall EXCEPT ![t].err = r.err,
                                     ![t].outputs = r.outputs,
                                     ![t].unbound = r.unbound,
                                     ![t].actual = r.actual]
           /\ imports' = Append(imports, ImportRecord(graph, r))
    /\ pc' = [pc EXCEPT ![t] = "done"]
    /\ UNCHANGED <<store, last, userOps, codec>>

NextConc ==
    \/ Freeze
    \/ AddUserOp
    \/ \E t \in Threads : TAllocate(t)
    \/ \E t \in Threads : TImport(t)

SpecConc == Init /\ [][NextConc]_vars

(***************************************************************************)
(* Properties                                                              *)
(***************************************************************************)
Composed == last.op \in {"partially_apply", "apply"}
Returns == Composed /\ last.perr = "ok"

FlatInputs == decompose_sparse_tensors(last.inputs)

\* The column name a flat key belongs to.
LogicalName(k) ==
    IF SPARSE_TENSOR_NAME_RE(k).matched THEN SPARSE_TENSOR_NAME_RE(k).group
    ELSE DENSE_TENSOR_NAME_RE(k).group
LogicalNames(signature) == {LogicalName(k) : k \in DOMAIN signature}

HasPrefix(op, scope) ==
    Len(op) >= Len(scope) /\ SubSeq(op, 1, Len(scope)) = scope

TensorsIn(m) == UNION {{m[k].parts[i] : i \in DOMAIN m[k].parts} : k \in DOMAIN m}

\* C1: when partially_apply_saved_transform returns, the flat keys of the
\* unbound inputs are exactly the input-signature keys the caller did not
\* supply (bound and unbound keys partition the input signature) and the
\* flat keys of the outputs are exactly the output-signature keys; supplying
\* only "a" of inputs {"a","b"} leaves {"b"} unbound, and supplying every
\* declared input leaves nothing unbound.
C1_UnboundPartition ==
    Returns =>
        LET bound == DOMAIN FlatInputs
            unbound == DOMAIN decompose_sparse_tensors(last.unbound)
        IN  /\ unbound = DOMAIN store.inputs \ bound
            /\ bound \cup unbound = DOMAIN store.inputs
            /\ bound \cap unbound = {}
            /\ DOMAIN decompose_sparse_tensors(last.outputs) = DOMAIN store.outputs
            /\ (LogicalNames(store.inputs) = {ColA, ColB}
                    /\ DOMAIN last.inputs = {ColA})
                => DOMAIN last.unbound = {ColB}
            /\ LogicalNames(store.inputs) \subseteq DOMAIN last.inputs
                => last.unbound = EmptyMap

C1_Witness ==
    /\ last.op = "partially_apply" /\ last.err = "ok"
    /\ LogicalNames(store.inputs) = {ColA, ColB}
    /\ DOMAIN last.inputs = {ColA}
    /\ DOMAIN last.unbound = {ColB}
    /\ DOMAIN last.outputs = {ColC}

\* C2 as stated: a call with any input whose column name the input signature
\* does not declare fails with "Unexpected inputs" naming exactly those
\* column names, and a call whose flat keys are all declared never fails so.
C2_UnexpectedNamesLogical ==
    last.op = "partially_apply" =>
        LET offending == DOMAIN last.inputs \ LogicalNames(store.inputs)
        IN  /\ offending # {} =>
                /\ last.err = "ValueError: Unexpected inputs"
                /\ last.names = offending
            /\ DOMAIN FlatInputs \subseteq DOMAIN store.inputs
                => last.err # "ValueError: Unexpected inputs"

\* C2 amended: on a SavedModel without assets, a call with any flat input
\* key that the input signature does not hold fails with "Unexpected inputs"
\* naming exactly those flat keys; with assets it fails on the assets
\* instead; a call whose flat keys are all declared never fails so.
C2_UnexpectedNamesFlat ==
    last.op = "partially_apply" =>
        LET unexpected == DOMAIN FlatInputs \ DOMAIN store.inputs
        IN  /\ (unexpected # {} /\ store.assets = {}) =>
                /\ last.err = "ValueError: Unexpected inputs"
                /\ last.names = unexpected
            /\ (unexpected # {} /\ store.assets # {}) =>
                last.err = "NotImplementedError: assets"
            /\ unexpected = {} => last.err # "ValueError: Unexpected inputs"

C2_Witness ==
    /\ last.op = "partially_apply"
    /\ LogicalNames(store.inputs) = {ColA}
    /\ DOMAIN last.inputs = {ColA, ColB}
    /\ ColA \o DenseTensorSuffix \in DOMAIN store.inputs
    /\ ~IsSparse(last.inputs[ColA]) /\ ~IsSparse(last.inputs[ColB])
    /\ last.err = "ValueError: Unexpected inputs"
    /\ last.names = {ColB \o DenseTensorSuffix}

\* C3: apply_saved_transform fails with "Missing required inputs", naming the
\* unbound column names, exactly when partially_apply_saved_transform
\* returns a non-empty unbound_inputs for the same SavedModel, inputs and
\* graph; otherwise it returns the outputs partially_apply_saved_transform
\* returns.
C3_ApplyIffNothingUnbound ==
    last.op = "apply" =>
        LET pa == partially_apply_saved_transform(last.pre, store, last.inputs,
                                                  last.input_map)
        IN  pa.err = "ok" =>
                /\ (last.err = "ValueError: Missing required inputs")
                        <=> (pa.unbound # EmptyMap)
                /\ pa.unbound # EmptyMap => last.names = DOMAIN pa.unbound
                /\ pa.unbound = EmptyMap =>
                        last.err = "ok" /\ last.ret = pa.outputs

C3_Witness ==
    /\ last.op = "apply"
    /\ DOMAIN last.inputs = {ColA}
    /\ last.err = "ValueError: Missing required inputs"
    /\ last.names = {ColB}

C5_ConcurrentScopesDiffer ==
    \A t1, t2 \in Threads :
        (t1 # t2 /\ tcall[t1].scope # <<>> /\ tcall[t2].scope # <<>>)
            => tcall[t1].scope # tcall[t2].scope

\* C6: recomposing the decomposition of any map gives the map back: the
\* same column names, each with the same kind and the same tensors in the
\* same places.
C6_RoundTrip ==
    codec.phase = "done" => codec.err = "ok" /\ codec.back = codec.x

\* C7: freezing fails with the empty-contract ValueError whenever the
\* decomposed inputs are empty, and whenever the decomposed outputs are
\* empty, and then writes no SavedModel.
C7_EmptyContractRejected ==
    (last.op = "freeze"
        /\ (decompose_sparse_tensors(last.inputs) = EmptyMap
            \/ decompose_sparse_tensors(last.outs) = EmptyMap))
    => /\ last.err \in {"ValueError: inputs cannot be None or empty",
                        "ValueError: outputs cannot be None or empty"}
       /\ store = Absent

\* C8: a call on a SavedModel that declares asset files fails with the
\* assets error whatever its signatures and whatever the inputs, also when
\* the inputs hold unexpected keys, and nothing is imported.
C8_AssetsRejectedFirst ==
    (Composed /\ store.assets # {}) =>
        /\ last.perr = "NotImplementedError: assets"
        /\ last.err = "NotImplementedError: assets"
        /\ ~last.imported
        /\ last.post = last.pre

C8_Witness ==
    /\ last.op = "partially_apply"
    /\ store.assets # {}
    /\ DOMAIN FlatInputs \ DOMAIN store.inputs # {}
    /\ last.err = "NotImplementedError: assets"

\* C9: each returned output whose tensor name in the output signature is a
\* key of input_map is the tensor the caller supplied for it; every other
\* returned output is the tensor named by this call's scope followed by the
\* signature's tensor name.
Substituted(k) ==
    \E b \in DOMAIN FlatInputs : store.inputs[b] = store.outputs[k]

C9_SubstitutionPrecedence ==
    Returns =>
        LET flat == decompose_sparse_tensors(last.outputs)
            me == imports[Len(imports)]
        IN  \A k \in DOMAIN store.outputs :
                IF Substituted(k)
                THEN /\ flat[k] = last.input_map[store.outputs[k]]
                     /\ \E b \in DOMAIN FlatInputs :
                            /\ store.inputs[b] = store.outputs[k]
                            /\ flat[k] = FlatInputs[b]
                ELSE flat[k] = Tensor(prepend_name_scope(store.outputs[k], me.scope))

C9_Witness ==
    /\ Returns
    /\ \E k \in DOMAIN store.outputs : Substituted(k)
    /\ \E k \in DOMAIN store.outputs : ~Substituted(k)

\* C10: a call that fails on the assets or on unexpected inputs leaves the
\* graph as it was: no op added, no name marked used, nothing imported, so
\* the next scope query answers as it would have without the call.
C10_EarlyFailureLeavesGraph ==
    (Composed /\ last.perr \in {"NotImplementedError: assets",
                                "ValueError: Unexpected inputs"})
    => /\ last.post = last.pre
       /\ ~last.imported
       /\ ScopeQuery(last.post) = ScopeQuery(last.pre)

C10_Witness ==
    /\ Composed
    /\ last.perr = "ValueError: Unexpected inputs"
    /\ Len(imports) = 1
    /\ last.post = last.pre
    /\ graph = last.post

==========================================================================
